---- MODULE Spec2Model ----
(***************************************************************************)
(* CMAB (CTR Material Animation Binary): the decoder and the sampler of    *)
(* src/src/oot3d/cmab.ts, and the ModelCache of src/src/Fez/Scenes_Fez.ts.  *)
(*                                                                         *)
(* Numbers.  A frame is a JavaScript number and may be fractional; here a   *)
(* frame is a whole number of ticks, FrameDen ticks to the frame, so that   *)
(* keyframe time T is tick T * FrameDen.  Sampled values are exact          *)
(* rationals <<n, d>> in lowest terms with d > 0 (the code computes them    *)
(* in binary floating point; rounding is not modelled).                     *)
(***************************************************************************)
EXTENDS Integers, Sequences, FiniteSets, TLC

VARIABLES
    cmab,       \* the AnimationBase of the container: [duration, loopMode]
    animEntry,  \* the AnimationEntry an evaluator is constructed for
    animator,   \* the evaluator class last constructed, or "none"
    time,       \* animationController.getTimeInFrames() of the last call, in ticks
    status,     \* how the last constructor or calc call ended
    mtx,        \* the caller's mat4 (dst of calcTexMtx)
    color,      \* the caller's Color (dst of calcMaterialColor)
    loopFrame,  \* getAnimFrame's local frame, in ticks, while it runs
    pc,         \* where the running function is
    version,    \* the Version given to the parser
    buffer,     \* the bytes given to the parser
    animEntries,\* parse's local array of the entries parsed so far
    parsed,     \* what the parser returned or threw
    trilesetPromiseCache,        \* ModelCache: path -> promise, 0 when not set
    artObjectPromiseCache,       \* ModelCache: path -> promise, 0 when not set
    backgroundPlanePromiseCache, \* ModelCache: path -> promise, 0 when not set
    promises,   \* the promises the internal fetches made, in creation order
    calls       \* the public fetch calls made, each with the promise it returned

vars == <<cmab, animEntry, animator, time, status, mtx, color,
          loopFrame, pc, version, buffer, animEntries, parsed,
          trilesetPromiseCache, artObjectPromiseCache,
          backgroundPlanePromiseCache, promises, calls>>

\* the variables a machine does not use keep these values
evaluatorVars == <<animEntry, animator, status, mtx, color>>
frameVars == <<loopFrame, pc>>
parserVars == <<version, buffer, animEntries, parsed>>
cacheVars == <<trilesetPromiseCache, artObjectPromiseCache,
               backgroundPlanePromiseCache, promises, calls>>

(* ------------------------------ bounds -------------------------------- *)
FrameDen == 2
MaxDuration == 2
MaxTime == 2
MaxValue == 1
MaxHalf == 3
MaxWords == 4
MaxEntries == 2
MaxBadFields == 2
MaxPaths == 2
MaxCalls == 3

(* -------------------------- program constants ------------------------- *)
LINEAR == 1
HERMITE == 2
TRANSLATION == 1
UNK_04 == 4
ROTATION == 5
ONCE == 0
REPEAT == 1
Ocarina == 0
Majora == 1

(* ------------------------------ rationals ----------------------------- *)
Abs(x) == IF x < 0 THEN -x ELSE x

RECURSIVE Gcd(_, _)
Gcd(a, b) == IF b = 0 THEN a ELSE Gcd(b, a % b)

Rat(n, d) ==
    LET g == Gcd(Abs(n), Abs(d))
        s == IF d < 0 THEN -1 ELSE 1
    IN  <<(s * n) \div g, (s * d) \div g>>

Num(x) == Rat(x, 1)
RAdd(p, q) == Rat(p[1] * q[2] + q[1] * p[2], p[2] * q[2])
RSub(p, q) == Rat(p[1] * q[2] - q[1] * p[2], p[2] * q[2])
RMul(p, q) == Rat(p[1] * q[1], p[2] * q[2])
RNeg(p) == <<-p[1], p[2]>>

(* --------------------------- call outcomes ---------------------------- *)
\* A call either returns a number or ends another way.
Value(r) == [kind |-> "value", v |-> r]
TypeError == [kind |-> "TypeError", v |-> <<0, 1>>]
Whoops == [kind |-> "whoops", v |-> <<0, 1>>]

\* tracks[i] of a slot that holds no track
Undefined == [type |-> 0, frames |-> <<>>]

(* ------------------------------ sampler ------------------------------- *)
\* frames.findIndex((key) => (frame < key.time)): the 0-based index of the
\* first keyframe whose time exceeds the frame, or -1.  `frame` is in ticks.
findIndex(frames, frame) ==
    LET hits == {i \in 1..Len(frames) : frame < frames[i].time * FrameDen}
    IN  IF hits = {} THEN -1
        ELSE (CHOOSE i \in hits : \A j \in hits : i <= j) - 1

\* whether frames[idx] (0-based) is an element of the array
InRange(frames, idx) == 0 <= idx /\ idx < Len(frames)

\* lerp with the start value left out of the difference
lerpNoOrigin(k0, k1, t) ==
    RAdd(Num(k0.value), RMul(Num(k1.value), t))

lerp(k0, k1, t) ==
    RAdd(Num(k0.value), RMul(RSub(Num(k1.value), Num(k0.value)), t))

\* t = (frame - k0.time) / (k1.time - k0.time), frame in ticks
SegmentT(k0, k1, frame) ==
    Rat(frame - k0.time * FrameDen, (k1.time - k0.time) * FrameDen)

sampleAnimationTrackLinear(track, frame) ==
    LET frames == track.frames
        idx1 == findIndex(frames, frame)
        idx0 == idx1 - 1
    IN  IF Len(frames) = 1 THEN Value(Num(frames[1].value))
        ELSE IF idx1 < 0
        THEN IF InRange(frames, Len(frames) - 1)
             THEN Value(Num(frames[Len(frames)].value))
             ELSE TypeError
        ELSE IF ~InRange(frames, idx0) THEN TypeError
        ELSE Value(lerp(frames[idx0 + 1], frames[idx1 + 1],
                        SegmentT(frames[idx0 + 1], frames[idx1 + 1], frame)))

cubicEval(cf0, cf1, cf2, cf3, t) ==
    RAdd(RMul(RAdd(RMul(RAdd(RMul(cf0, t), cf1), t), cf2), t), cf3)

hermiteInterpolate(k0, k1, t) ==
    LET length == k1.time - k0.time
        p0 == Num(k0.value)
        p1 == Num(k1.value)
        s0 == Num(k0.tangentOut * length)
        s1 == Num(k1.tangentIn * length)
        cf0 == RAdd(RAdd(RMul(p0, Num(2)), RMul(p1, Num(-2))), RAdd(s0, s1))
        cf1 == RAdd(RAdd(RMul(p0, Num(-3)), RMul(p1, Num(3))),
                    RAdd(RMul(s0, Num(-2)), RMul(s1, Num(-1))))
        cf2 == s0
        cf3 == p0
    IN  cubicEval(cf0, cf1, cf2, cf3, t)

\* sampleAnimationTrackHermite without the one-frame special case
sampleAnimationTrackHermiteNoHack(track, frame) ==
    LET frames == track.frames
        idx1 == findIndex(frames, frame)
        idx0 == idx1 - 1
    IN  IF Len(frames) = 1 THEN Value(Num(frames[1].value))
        ELSE IF idx1 < 0
        THEN IF InRange(frames, Len(frames) - 1)
             THEN Value(Num(frames[Len(frames)].value))
             ELSE TypeError
        ELSE IF ~InRange(frames, idx0) THEN TypeError
        ELSE Value(hermiteInterpolate(frames[idx0 + 1], frames[idx1 + 1],
                        SegmentT(frames[idx0 + 1], frames[idx1 + 1], frame)))

sampleAnimationTrackHermite(track, frame) ==
    LET frames == track.frames
        idx1 == findIndex(frames, frame)
        idx0 == idx1 - 1
    IN  IF Len(frames) = 1 THEN Value(Num(frames[1].value))
        ELSE IF idx1 < 0
        THEN IF InRange(frames, Len(frames) - 1)
             THEN Value(Num(frames[Len(frames)].value))
             ELSE TypeError
        ELSE IF ~InRange(frames, idx0) THEN TypeError
        ELSE IF frames[idx1 + 1].time - frames[idx0 + 1].time = 1
        THEN Value(Num(frames[idx0 + 1].value))
        ELSE Value(hermiteInterpolate(frames[idx0 + 1], frames[idx1 + 1],
                        SegmentT(frames[idx0 + 1], frames[idx1 + 1], frame)))

sampleAnimationTrack(track, frame) ==
    IF track.type = LINEAR THEN sampleAnimationTrackLinear(track, frame)
    ELSE IF track.type = HERMITE THEN sampleAnimationTrackHermite(track, frame)
    ELSE Whoops

(* -------------------------- frame normalization ----------------------- *)
\* What getAnimFrame does: return a frame (in ticks), never return, or throw.
Returned(f) == [kind |-> "value", v |-> f]
Hang == [kind |-> "hang", v |-> 0]
BadLoopMode == [kind |-> "whoops", v |-> 0]

\* while (frame > lastFrame) frame -= lastFrame;  in ticks.  An iteration
\* that leaves frame unchanged re-enters the loop in the same state, and so
\* does every later one.
RECURSIVE RepeatLoop(_, _)
RepeatLoop(frame, lastFrame) ==
    IF frame > lastFrame
    THEN IF frame - lastFrame = frame THEN Hang
         ELSE RepeatLoop(frame - lastFrame, lastFrame)
    ELSE Returned(frame)

\* getAnimFrame clamping in Repeat mode as it does in Once mode
getAnimFrameRepeatClamps(anim, frame) ==
    LET lastFrame == anim.duration * FrameDen
    IN  IF anim.loopMode \in {ONCE, REPEAT}
        THEN IF frame > lastFrame THEN Returned(lastFrame) ELSE Returned(frame)
        ELSE BadLoopMode

\* getAnimFrame without the clamp of Once mode
getAnimFrameOnceUnclamped(anim, frame) ==
    LET lastFrame == anim.duration * FrameDen
    IN  IF anim.loopMode = ONCE THEN Returned(frame)
        ELSE IF anim.loopMode = REPEAT THEN RepeatLoop(frame, lastFrame)
        ELSE BadLoopMode

getAnimFrame(anim, frame) ==
    LET lastFrame == anim.duration * FrameDen
    IN  IF anim.loopMode = ONCE
        THEN IF frame > lastFrame THEN Returned(lastFrame) ELSE Returned(frame)
        ELSE IF anim.loopMode = REPEAT THEN RepeatLoop(frame, lastFrame)
        ELSE BadLoopMode

(* ----------------------------- evaluators ----------------------------- *)
\* animEntry.tracks[i], i 0-based; an index past the array's length reads
\* undefined, like a hole in it.
TrackAt(entry, i) ==
    IF i < Len(entry.tracks) THEN entry.tracks[i + 1] ELSE Undefined

\* every absent slot defaulting to 0
SlotValueZeroDefault(entry, i, animFrame, dflt) ==
    IF TrackAt(entry, i) # Undefined
    THEN sampleAnimationTrack(TrackAt(entry, i), animFrame)
    ELSE Value(Num(0))

\* tracks[i] !== undefined ? sampleAnimationTrack(tracks[i], animFrame) : dflt
SlotValue(entry, i, animFrame, dflt) ==
    IF TrackAt(entry, i) # Undefined
    THEN sampleAnimationTrack(TrackAt(entry, i), animFrame)
    ELSE Value(Num(dflt))

\* A mat4 that is the identity but for its translation row entries 12 and
\* 13 and a rotation about Z by rotZ radians (mat4.rotateZ).
Mat(m12, m13, rotZ) == [m12 |-> m12, m13 |-> m13, rotZ |-> rotZ]
Identity == Mat(Num(0), Num(0), Num(0))

\* The first of the outcomes, in evaluation order, that is not a value.
FirstFailure(outs) ==
    LET bad == {i \in 1..Len(outs) : outs[i].kind # "value"}
    IN  IF bad = {} THEN "ok"
        ELSE outs[CHOOSE i \in bad : \A j \in bad : i <= j].kind

\* TextureAnimator.calcTexMtx: [status, dst].  dst0 is the caller's matrix.
calcTexMtx(anim, entry, timeInFrames, dst0) ==
    LET af == getAnimFrame(anim, timeInFrames)
    IN  IF af.kind # "value" THEN [status |-> af.kind, dst |-> dst0]
        ELSE IF entry.animationType = TRANSLATION
        THEN LET tx == SlotValue(entry, 0, af.v, 0)
                 ty == SlotValue(entry, 1, af.v, 0)
                 st == FirstFailure(<<tx, ty>>)
             IN  IF st # "ok" THEN [status |-> st, dst |-> Identity]
                 ELSE [status |-> "ok",
                       dst |-> Mat(RNeg(tx.v), RNeg(ty.v), Num(0))]
        ELSE IF entry.animationType = ROTATION
        THEN LET r == SlotValue(entry, 0, af.v, 0)
             IN  IF r.kind # "value" THEN [status |-> r.kind, dst |-> Identity]
                 ELSE [status |-> "ok", dst |-> Mat(Num(0), Num(0), r.v)]
        ELSE [status |-> "whoops", dst |-> Identity]

Rgba(r, g, b, a) == [r |-> r, g |-> g, b |-> b, a |-> a]

\* ColorAnimator.calcMaterialColor: [status, dst].
calcMaterialColor(anim, entry, timeInFrames, dst0) ==
    LET af == getAnimFrame(anim, timeInFrames)
    IN  IF af.kind # "value" THEN [status |-> af.kind, dst |-> dst0]
        ELSE LET r == SlotValue(entry, 0, af.v, 1)
                 g == SlotValue(entry, 1, af.v, 1)
                 b == SlotValue(entry, 2, af.v, 1)
                 a == SlotValue(entry, 3, af.v, 1)
                 st == FirstFailure(<<r, g, b, a>>)
             IN  IF st # "ok" THEN [status |-> st, dst |-> dst0]
                 ELSE [status |-> "ok", dst |-> Rgba(r.v, g.v, b.v, a.v)]

\* util.assert(b): throws when b is false.
assert(b) == IF b THEN "ok" ELSE "AssertionFailed"

\* a constructor whose assertion holds returns the new object
Constructed(asserted) == IF asserted = "ok" THEN "constructed" ELSE asserted

\* a TextureAnimator that accepts Translation entries only
TextureAnimatorNewTranslationOnly(entry) ==
    assert(entry.animationType = TRANSLATION)

\* new TextureAnimator(animationController, cmab, animEntry)
TextureAnimatorNew(entry) ==
    assert(entry.animationType = TRANSLATION
           \/ entry.animationType = ROTATION)

\* new ColorAnimator(animationController, cmab, animEntry)
ColorAnimatorNew(entry) ==
    assert(entry.animationType = UNK_04)

(* ------------------------- bounded input sets ------------------------- *)
Times == 0..MaxTime
Values == 0..MaxValue
\* Hermite tangents as parseTrack reads them: unsigned integers
Tangents == 0..MaxValue

\* The keyframe times of a track: strictly increasing, one keyframe for
\* each member of a non-empty set of times.
RECURSIVE SortedSeq(_)
SortedSeq(S) ==
    IF S = {} THEN <<>>
    ELSE LET m == CHOOSE x \in S : \A y \in S : x <= y
         IN  <<m>> \o SortedSeq(S \ {m})

TimeSeqs == {SortedSeq(S) : S \in (SUBSET Times) \ {{}}}

LinearTracks ==
    UNION {{[type |-> LINEAR,
             frames |-> [i \in 1..Len(ts) |-> [time |-> ts[i], value |-> vs[i]]]] :
                vs \in [1..Len(ts) -> Values]} : ts \in TimeSeqs}

\* every keyframe of one track carries the same pair of tangents
HermiteTracks ==
    UNION {{[type |-> HERMITE,
             frames |-> [i \in 1..Len(ts) |->
                           [time |-> ts[i], value |-> vs[i],
                            tangentIn |-> tg[1], tangentOut |-> tg[2]]]] :
                vs \in [1..Len(ts) -> Values], tg \in Tangents \X Tangents} :
           ts \in TimeSeqs}

\* parseTrack does not check the order of the times: two keyframes whose
\* times do not increase
IllOrderedLinear ==
    {[type |-> LINEAR,
      frames |-> <<[time |-> a, value |-> v], [time |-> b, value |-> w]>>] :
        a \in Times, b \in Times, v \in Values, w \in Values}
IllOrderedHermite ==
    {[type |-> HERMITE,
      frames |-> <<[time |-> a, value |-> v, tangentIn |-> 1, tangentOut |-> 1],
                   [time |-> b, value |-> w, tangentIn |-> 1, tangentOut |-> 1]>>] :
        a \in Times, b \in Times, v \in Values, w \in Values}
IllOrderedTracks ==
    {t \in IllOrderedLinear \cup IllOrderedHermite :
        t.frames[1].time >= t.frames[2].time}

\* spec.md section 8: the linear track [(0,0),(10,10)], duration 10,
\* frames 5, 10 and 15
ExampleTrack ==
    [type |-> LINEAR,
     frames |-> <<[time |-> 0, value |-> 0], [time |-> 10, value |-> 10]>>]

Tracks == LinearTracks \cup HermiteTracks \cup IllOrderedTracks \cup {ExampleTrack}

\* Strictly increasing keyframe times (spec.md section 3, assumed of a track)
WellFormedTrack(track) ==
    /\ Len(track.frames) >= 1
    /\ \A i \in 1..(Len(track.frames) - 1) :
          track.frames[i].time < track.frames[i + 1].time

\* The tracks of the slots of a multi-slot entry: constants, and one track
\* that starts after frame 0.
LateTrack ==
    [type |-> LINEAR,
     frames |-> <<[time |-> 1, value |-> 0], [time |-> MaxTime, value |-> MaxValue]>>]
SlotTracks ==
    {t \in LinearTracks : Len(t.frames) = 1 /\ t.frames[1].time = 0}
    \cup {LateTrack, Undefined}

SeqsUpTo(S, n) == UNION {[1..k -> S] : k \in 0..n}

\* Entries as parseMmad builds them: tracks is an array with holes, as long
\* as its last assigned index requires.
Entries ==
    {[animationType |-> ROTATION, tracks |-> tr] :
        tr \in {<<>>, <<Undefined>>} \cup {<<t>> : t \in Tracks}}
    \cup {[animationType |-> TRANSLATION, tracks |-> tr] :
            tr \in SeqsUpTo(SlotTracks \cup {ExampleTrack}, 2)}
    \cup {[animationType |-> UNK_04, tracks |-> tr] : tr \in SeqsUpTo(SlotTracks, 4)}
    \cup {[animationType |-> ty, tracks |-> <<>>] : ty \in {0, 2}}

Durations == 0..MaxDuration
\* the durations a container with this entry is given: the example's own
\* duration for the example track
DurationsOf(entry) ==
    IF \E i \in 1..Len(entry.tracks) : entry.tracks[i] = ExampleTrack
    THEN {10} ELSE Durations
LoopModes == {ONCE, REPEAT}
\* input frames, in ticks: past twice the longest duration
InputFrames ==
    (0..((2 * MaxDuration + 1) * FrameDen))
    \cup {5 * FrameDen, 10 * FrameDen, 15 * FrameDen}

\* what the caller's dst holds before the first call
CallerMat == Mat(Num(7), Num(7), Num(7))
CallerColor == Rgba(Num(7), Num(7), Num(7), Num(7))

(* ------------------------- the sampling machine ----------------------- *)
\* anim.duration of the container, in ticks
LastFrame == cmab.duration * FrameDen

\* asset paths, and a ModelCache as its constructor leaves it
Paths == 1..MaxPaths
EmptyMap == [path \in Paths |-> 0]
NoCache ==
    /\ trilesetPromiseCache = EmptyMap
    /\ artObjectPromiseCache = EmptyMap
    /\ backgroundPlanePromiseCache = EmptyMap
    /\ promises = <<>>
    /\ calls = <<>>

NoParser ==
    version = 0 /\ buffer = <<>> /\ animEntries = <<>> /\ parsed = <<>>

InitSample ==
    /\ animEntry \in Entries
    /\ cmab \in [duration : DurationsOf(animEntry), loopMode : LoopModes]
    /\ animator = "none"
    /\ time = 0
    /\ status = "idle"
    /\ mtx = CallerMat
    /\ color = CallerColor
    /\ loopFrame = 0 /\ pc = "idle"
    /\ NoParser
    /\ NoCache

\* a constructor may run while no evaluator exists
CanConstruct == animator = "none" \/ status = "AssertionFailed"

NewTextureAnimator ==
    /\ CanConstruct
    /\ animator' = "TextureAnimator"
    /\ status' = Constructed(TextureAnimatorNew(animEntry))
    /\ UNCHANGED <<cacheVars, cmab, animEntry, time, mtx, color, loopFrame, pc, version, buffer, animEntries, parsed>>

NewColorAnimator ==
    /\ CanConstruct
    /\ animator' = "ColorAnimator"
    /\ status' = Constructed(ColorAnimatorNew(animEntry))
    /\ UNCHANGED <<cacheVars, cmab, animEntry, time, mtx, color, loopFrame, pc, version, buffer, animEntries, parsed>>

\* a method may be called on a constructed evaluator while the thread runs
CanCall(class) ==
    animator = class /\ status \notin {"AssertionFailed", "hang"}

\* The first call finds the animation controller's clock at any input
\* frame; the clock does not run backwards, and each later call finds it at
\* the next input frame.
NextFrames ==
    IF status = "constructed" THEN InputFrames
    ELSE {t \in InputFrames :
            t > time /\ \A u \in InputFrames : u > time => t <= u}

CalcTexMtx ==
    /\ CanCall("TextureAnimator")
    /\ \E t \in NextFrames :
        LET out == calcTexMtx(cmab, animEntry, t, mtx)
        IN  /\ time' = t
            /\ status' = out.status
            /\ mtx' = out.dst
    /\ UNCHANGED <<cacheVars, cmab, animEntry, animator, color, loopFrame, pc, version, buffer, animEntries, parsed>>

CalcMaterialColor ==
    /\ CanCall("ColorAnimator")
    /\ \E t \in NextFrames :
        LET out == calcMaterialColor(cmab, animEntry, t, color)
        IN  /\ time' = t
            /\ status' = out.status
            /\ color' = out.dst
    /\ UNCHANGED <<cacheVars, cmab, animEntry, animator, mtx, loopFrame, pc, version, buffer, animEntries, parsed>>

NextSample ==
    \/ NewTextureAnimator
    \/ NewColorAnimator
    \/ CalcTexMtx
    \/ CalcMaterialColor

SpecSample == InitSample /\ [][NextSample]_vars


(* ------------------------------ the parser ---------------------------- *)
\* What a parser call does: return a value, or throw.
Return(x) == [kind |-> "return", v |-> x]
Throw(e) == [kind |-> e, v |-> <<>>]

\* view.getFloat32(offset, true) of the 32-bit word w (0 <= w < 2^31, so the
\* sign bit is clear): the IEEE 754 single it encodes, as m * 2^e with m odd
\* or zero.  An exponent field of 255 is Infinity (m = 1) or a NaN (m = 0).
RECURSIVE Dyadic(_, _)
Dyadic(m, e) ==
    IF m = 0 THEN [m |-> 0, e |-> 0]
    ELSE IF m % 2 = 0 THEN Dyadic(m \div 2, e + 1)
    ELSE [m |-> m, e |-> e]

getFloat32(w) ==
    LET expo == w \div 8388608
        frac == w % 8388608
    IN  IF expo = 255 THEN [m |-> IF frac = 0 THEN 1 ELSE 0, e |-> 255]
        ELSE IF expo = 0 THEN Dyadic(frac, -149)
        ELSE Dyadic(8388608 + frac, expo - 150)

\* view.getUint32(offset, true) of the 32-bit word w
getUint32(w) == w

\* A track buffer, buffer.slice(trackOffs): [half, words].  half is the four
\* little-endian 16-bit halves at bytes 0x00, 0x02, 0x04, 0x06 of the header;
\* words is the 32-bit words from byte 0x10 to the end of the buffer.  Bytes
\* 0x08..0x0F (timeEnd / unk1, unk2) are read into locals nothing uses.
\* getUint32 over two halves:
HalvesUint32(lo, hi) == lo + 65536 * hi

TrackType(ver, buf) ==
    IF ver = Ocarina THEN HalvesUint32(buf.half[1], buf.half[2]) ELSE buf.half[1]

NumKeyframes(ver, buf) ==
    IF ver = Ocarina THEN HalvesUint32(buf.half[3], buf.half[4]) ELSE buf.half[2]

\* the keyframe table starts at 0x10 and a DataView read past the end of the
\* buffer throws a RangeError
LinearFrames(buf, n) ==
    [i \in 1..n |-> [time |-> getUint32(buf.words[2 * i - 1]),
                     value |-> getFloat32(buf.words[2 * i])]]

HermiteFrames(buf, n) ==
    [i \in 1..n |-> [time |-> getUint32(buf.words[4 * i - 3]),
                     value |-> getFloat32(buf.words[4 * i - 2]),
                     tangentIn |-> getUint32(buf.words[4 * i - 1]),
                     tangentOut |-> getUint32(buf.words[4 * i])]]

\* parseTrack with every type other than Hermite read as Linear
parseTrackDefaultLinear(ver, buf) ==
    LET type == TrackType(ver, buf)
        numKeyframes == NumKeyframes(ver, buf)
    IN  IF numKeyframes = 0 THEN Return(Undefined)
        ELSE IF type = HERMITE
        THEN IF 4 * numKeyframes > Len(buf.words) THEN Throw("RangeError")
             ELSE Return([type |-> type, frames |-> HermiteFrames(buf, numKeyframes)])
        ELSE IF 2 * numKeyframes > Len(buf.words) THEN Throw("RangeError")
             ELSE Return([type |-> type, frames |-> LinearFrames(buf, numKeyframes)])

\* parseTrack with the type looked at before the keyframe count
parseTrackTypeFirst(ver, buf) ==
    LET type == TrackType(ver, buf)
        numKeyframes == NumKeyframes(ver, buf)
    IN  IF type \notin {LINEAR, HERMITE} THEN Throw("whoops")
        ELSE IF numKeyframes = 0 THEN Return(Undefined)
        ELSE IF type = LINEAR
        THEN IF 2 * numKeyframes > Len(buf.words) THEN Throw("RangeError")
             ELSE Return([type |-> type, frames |-> LinearFrames(buf, numKeyframes)])
        ELSE IF 4 * numKeyframes > Len(buf.words) THEN Throw("RangeError")
             ELSE Return([type |-> type, frames |-> HermiteFrames(buf, numKeyframes)])

parseTrack(ver, buf) ==
    LET type == TrackType(ver, buf)
        numKeyframes == NumKeyframes(ver, buf)
    IN  IF numKeyframes = 0 THEN Return(Undefined)
        ELSE IF type = LINEAR
        THEN IF 2 * numKeyframes > Len(buf.words) THEN Throw("RangeError")
             ELSE Return([type |-> type, frames |-> LinearFrames(buf, numKeyframes)])
        ELSE IF type = HERMITE
        THEN IF 4 * numKeyframes > Len(buf.words) THEN Throw("RangeError")
             ELSE Return([type |-> type, frames |-> HermiteFrames(buf, numKeyframes)])
        ELSE Throw("whoops")

\* tracks.push(track) in the place of tracks[i] = track
AssignAtPush(tracks, i, track) == Append(tracks, track)

\* tracks[i] = track on a JavaScript array: the array grows to hold index i
\* (0-based) and the indices it skips are holes, which read undefined
AssignAt(tracks, i, track) ==
    [j \in 1..(IF i + 1 > Len(tracks) THEN i + 1 ELSE Len(tracks)) |->
        IF j = i + 1 THEN track
        ELSE IF j <= Len(tracks) THEN tracks[j] ELSE Undefined]

\* An entry buffer, buffer.slice(mmadAnimChunkOffs): [magic, animationType,
\* materialIndex, channelIndex, trackOffs, at].  trackOffs is the 16-bit
\* offsets from byte 0x10 on; at[o] is the track buffer at the non-zero
\* offset o.
\* the slots the loops of parseMmad read for an animation type
SlotCount(animationType) ==
    IF animationType = TRANSLATION THEN 2
    ELSE IF animationType = UNK_04 THEN 4
    ELSE IF animationType = ROTATION THEN 1
    ELSE 0

\* for (let i = 0; i < n; i++) { ... } of parseMmad, from iteration i on
RECURSIVE ParseSlots(_, _, _, _, _)
ParseSlots(ver, buf, i, n, tracks) ==
    IF i >= n THEN Return(tracks)
    ELSE LET trackOffs == buf.trackOffs[i + 1]
         IN  IF trackOffs = 0 THEN ParseSlots(ver, buf, i + 1, n, tracks)
             ELSE LET t == parseTrack(ver, buf.at[trackOffs])
                  IN  IF t.kind # "return" THEN t
                      ELSE ParseSlots(ver, buf, i + 1, n, AssignAt(tracks, i, t.v))

parseMmad(ver, buf) ==
    IF assert(buf.magic = "mmad") # "ok" THEN Throw("AssertionFailed")
    ELSE LET tracks == ParseSlots(ver, buf, 0, SlotCount(buf.animationType), <<>>)
         IN  IF tracks.kind # "return" THEN tracks
             ELSE Return([animationType |-> buf.animationType,
                          materialIndex |-> buf.materialIndex,
                          channelIndex |-> buf.channelIndex,
                          tracks |-> tracks.v])

\* A container buffer: [magic, subversion, f0C, f10, f14, strt, f20,
\* duration, f2C, mads, entries].  strt is the four characters at the string
\* table offset (0x18); f20 is the word at 0x20 as its two 16-bit halves
\* (low, high); entries[i] is the entry buffer the i-th offset of the table
\* at 0x3C leads to, and their number is the word at 0x38.
U32Max == <<65535, 65535>>

\* the header assertions of parse in their order, as the list of those met
HeaderChecks(buf) ==
    <<buf.magic = "cmab",
      buf.subversion = 1,
      buf.f0C = 0,
      buf.f10 = 1,
      buf.f14 = 32,
      buf.strt = "strt",
      buf.f20 = U32Max,
      buf.f2C = 20,
      buf.mads = "mads">>

\* the header assertions without the one on the word at 0x2C
HeaderOkNoChunkLocation(buf) ==
    IF \E i \in (1..Len(HeaderChecks(buf))) \ {8} : assert(HeaderChecks(buf)[i]) # "ok"
    THEN "AssertionFailed" ELSE "ok"

HeaderOk(buf) ==
    IF \E i \in 1..Len(HeaderChecks(buf)) : assert(HeaderChecks(buf)[i]) # "ok"
    THEN "AssertionFailed" ELSE "ok"

(* ----------------------- claims on the sampler ------------------------ *)
\* calcTexMtx has run on a Rotation entry whose slot holds a track, and
\* sampled it (getAnimFrame returned)
RotSampled ==
    /\ animator = "TextureAnimator"
    /\ animEntry.animationType = ROTATION
    /\ TrackAt(animEntry, 0) # Undefined
    /\ status \in {"ok", "TypeError", "whoops"}

\* what that sample of the track was
LastSample ==
    IF status = "ok" THEN Value(mtx.rotZ) ELSE [kind |-> status, v |-> <<0, 1>>]

RotTrack == TrackAt(animEntry, 0)

\* C1 as claimed: in Repeat mode with duration >= 1, for 0 <= k < duration
\* the sample at input frame duration + k is the sample at input frame k.
C1_RepeatWrapsFromZero ==
    (RotSampled /\ cmab.loopMode = REPEAT /\ cmab.duration >= 1
        /\ LastFrame <= time /\ time < 2 * LastFrame)
    => LastSample =
         sampleAnimationTrack(RotTrack, getAnimFrame(cmab, time - LastFrame).v)

\* C1 amended: in Repeat mode with duration >= 1, for 0 < k < duration the
\* sample at input frame duration + k is the sample at input frame k (an
\* input equal to duration is left at duration, not wrapped to 0).
C1_RepeatWraps ==
    /\ (RotSampled /\ cmab.loopMode = REPEAT /\ cmab.duration >= 1
           /\ LastFrame < time /\ time < 2 * LastFrame)
       => LastSample =
            sampleAnimationTrack(RotTrack, getAnimFrame(cmab, time - LastFrame).v)
    /\ (RotSampled /\ cmab.loopMode = REPEAT /\ cmab.duration >= 1
           /\ time = LastFrame)
       => LastSample = sampleAnimationTrack(RotTrack, LastFrame)

\* a wrapped sample that differs from the sample at the unwrapped frame
C1_Witness ==
    /\ RotSampled /\ cmab.loopMode = REPEAT /\ cmab.duration >= 1
    /\ LastFrame < time /\ time < 2 * LastFrame
    /\ status = "ok"
    /\ LastSample # sampleAnimationTrack(RotTrack, time)

\* every present track of the entry has strictly increasing keyframe times
WellFormedEntry ==
    \A i \in 1..Len(animEntry.tracks) :
        animEntry.tracks[i] # Undefined => WellFormedTrack(animEntry.tracks[i])

Sampled ==
    /\ animator \in {"TextureAnimator", "ColorAnimator"}
    /\ status \notin {"constructed", "AssertionFailed"}

\* C2: on an entry whose present tracks are well formed, calcTexMtx and
\* calcMaterialColor raise no error and read no keyframe outside the track,
\* at every non-negative frame.
C2_SamplingNeverFails ==
    (Sampled /\ WellFormedEntry) => status \notin {"TypeError", "whoops"}

\* C5: TextureAnimator is constructed exactly for Translation and Rotation
\* entries, ColorAnimator exactly for UNK_04 entries; the other constructions
\* throw, so an evaluator is never bound to an entry of another type.
C5_ConstructorsMatchEntryType ==
    /\ animator = "TextureAnimator" =>
          (status # "AssertionFailed"
             <=> animEntry.animationType \in {TRANSLATION, ROTATION})
    /\ animator = "ColorAnimator" =>
          (status # "AssertionFailed" <=> animEntry.animationType = UNK_04)

\* both constructors have refused an entry: one that is neither
C5_Witness ==
    /\ animator = "ColorAnimator"
    /\ status = "AssertionFailed"
    /\ animEntry.animationType = ROTATION

\* C6: whenever a call returns, each absent slot has contributed its
\* default: 0 to the translation and to the rotation angle, 1 to a colour
\* channel, whatever the other slots hold.
C6_AbsentSlotsDefault ==
    status = "ok" =>
      /\ (animator = "TextureAnimator" /\ animEntry.animationType = TRANSLATION) =>
            /\ TrackAt(animEntry, 0) = Undefined => mtx.m12 = Num(0)
            /\ TrackAt(animEntry, 1) = Undefined => mtx.m13 = Num(0)
            /\ mtx.rotZ = Num(0)
      /\ (animator = "TextureAnimator" /\ animEntry.animationType = ROTATION) =>
            /\ TrackAt(animEntry, 0) = Undefined => mtx = Identity
      /\ animator = "ColorAnimator" =>
            /\ TrackAt(animEntry, 0) = Undefined => color.r = Num(1)
            /\ TrackAt(animEntry, 1) = Undefined => color.g = Num(1)
            /\ TrackAt(animEntry, 2) = Undefined => color.b = Num(1)
            /\ TrackAt(animEntry, 3) = Undefined => color.a = Num(1)

\* a colour whose green slot is absent beside a present red slot of value 0
C6_Witness ==
    /\ animator = "ColorAnimator" /\ status = "ok"
    /\ TrackAt(animEntry, 0) # Undefined
    /\ TrackAt(animEntry, 1) = Undefined
    /\ color.r = Num(0) /\ color.g = Num(1)

\* the value the claim gives for a linear track at normalized frame f (ticks)
LinearExpected(track, f) ==
    LET frames == track.frames
        later == {i \in 1..Len(frames) : frames[i].time * FrameDen > f}
        i1 == CHOOSE i \in later : \A j \in later : i <= j
        k0 == frames[i1 - 1]
        k1 == frames[i1]
    IN  IF later = {} THEN Num(frames[Len(frames)].value)
        ELSE Rat(k0.value * ((k1.time - k0.time) * FrameDen)
                   + (k1.value - k0.value) * (f - k0.time * FrameDen),
                 (k1.time - k0.time) * FrameDen)

\* C7: a linear track of two or more keyframes with increasing times, at a
\* normalized frame f not before the first keyframe: the last value when no
\* keyframe is later than f, else the weighted average of the two keyframes
\* around f.  The example [(0,0),(10,10)]: 5 at 5, 10 from 10 on, 5 at input
\* 15 under Repeat with duration 10.
C7_LinearInterpolation ==
    /\ (RotSampled /\ RotTrack.type = LINEAR /\ Len(RotTrack.frames) >= 2
           /\ WellFormedTrack(RotTrack)
           /\ getAnimFrame(cmab, time).v >= RotTrack.frames[1].time * FrameDen)
       => LastSample = Value(LinearExpected(RotTrack, getAnimFrame(cmab, time).v))
    /\ (RotSampled /\ RotTrack = ExampleTrack) =>
          /\ time = 5 * FrameDen => LastSample = Value(Num(5))
          /\ time = 10 * FrameDen => LastSample = Value(Num(10))
          /\ (time = 15 * FrameDen /\ cmab.loopMode = ONCE)
                => LastSample = Value(Num(10))
          /\ (time = 15 * FrameDen /\ cmab.loopMode = REPEAT)
                => LastSample = Value(Num(5))

\* a sample strictly inside a segment whose ends differ
C7_Witness ==
    /\ RotSampled /\ RotTrack.type = LINEAR /\ WellFormedTrack(RotTrack)
    /\ Len(RotTrack.frames) >= 2 /\ RotTrack # ExampleTrack
    /\ status = "ok"
    /\ mtx.rotZ[2] > 1

\* C8: a Hermite track sampled at a frame whose two bracketing keyframes are
\* one frame apart returns the earlier keyframe's value, whatever the
\* tangents.
C8_HermiteUnitSegment ==
    (RotSampled /\ RotTrack.type = HERMITE /\ Len(RotTrack.frames) >= 2) =>
      LET frames == RotTrack.frames
          f == getAnimFrame(cmab, time).v
          idx1 == findIndex(frames, f)
      IN  (idx1 >= 1
            /\ frames[idx1 + 1].time - frames[idx1].time = 1
            /\ frames[idx1].time * FrameDen <= f)
          => LastSample = Value(Num(frames[idx1].value))

\* a fractional frame in a unit segment where the spline would give another
\* value
C8_Witness ==
    /\ RotSampled /\ RotTrack.type = HERMITE /\ Len(RotTrack.frames) >= 2
    /\ status = "ok"
    /\ LET frames == RotTrack.frames
           f == getAnimFrame(cmab, time).v
           idx1 == findIndex(frames, f)
       IN  /\ idx1 >= 1
           /\ frames[idx1 + 1].time - frames[idx1].time = 1
           /\ frames[idx1].time * FrameDen < f
           /\ hermiteInterpolate(frames[idx1], frames[idx1 + 1],
                  SegmentT(frames[idx1], frames[idx1 + 1], f))
                # Num(frames[idx1].value)

\* C9: in Once mode an input frame past the duration is sampled at the
\* duration and a smaller one where it is: every input >= duration samples
\* like the duration itself.
C9_OnceClamps ==
    (RotSampled /\ cmab.loopMode = ONCE) =>
      /\ time >= LastFrame =>
            LastSample = sampleAnimationTrack(RotTrack, LastFrame)
      /\ time < LastFrame =>
            LastSample = sampleAnimationTrack(RotTrack, time)

\* a clamped sample that differs from the sample at the unclamped frame
C9_Witness ==
    /\ RotSampled /\ cmab.loopMode = ONCE /\ time > LastFrame
    /\ status = "ok"
    /\ LastSample # sampleAnimationTrack(RotTrack, time)

(* ------------------- getAnimFrame, one step at a time ----------------- *)
\* getAnimFrame(anim, frame) on the container's AnimationBase, its while
\* loop taken one iteration to the step.
NoEvaluator ==
    /\ animEntry = [animationType |-> 0, tracks |-> <<>>]
    /\ animator = "none" /\ status = "idle"
    /\ mtx = CallerMat /\ color = CallerColor

InitFrame ==
    /\ cmab \in [duration : Durations, loopMode : LoopModes]
    /\ time = 0 /\ loopFrame = 0 /\ pc = "idle"
    /\ NoEvaluator
    /\ NoParser
    /\ NoCache

\* a caller passes any non-negative frame
FrameCall ==
    /\ pc \in {"idle", "returned"}
    /\ \E t \in InputFrames : time' = t /\ loopFrame' = t
    /\ pc' = "entered"
    /\ UNCHANGED <<cacheVars, cmab, evaluatorVars, parserVars>>

\* if (frame > lastFrame) frame = lastFrame; return frame;
FrameOnce ==
    /\ pc = "entered" /\ cmab.loopMode = ONCE
    /\ loopFrame' = IF loopFrame > LastFrame THEN LastFrame ELSE loopFrame
    /\ pc' = "returned"
    /\ UNCHANGED <<cacheVars, cmab, time, evaluatorVars, parserVars>>

\* while (frame > lastFrame) frame -= lastFrame;   one iteration
FrameRepeatStep ==
    /\ pc = "entered" /\ cmab.loopMode = REPEAT
    /\ loopFrame > LastFrame
    /\ loopFrame' = loopFrame - LastFrame
    /\ UNCHANGED <<cacheVars, cmab, time, pc, evaluatorVars, parserVars>>

\* the loop's condition is false: return frame;
FrameRepeatReturn ==
    /\ pc = "entered" /\ cmab.loopMode = REPEAT
    /\ ~(loopFrame > LastFrame)
    /\ pc' = "returned"
    /\ UNCHANGED <<cacheVars, cmab, time, loopFrame, evaluatorVars, parserVars>>

NextFrame == FrameCall \/ FrameOnce \/ FrameRepeatStep \/ FrameRepeatReturn

\* A running function keeps running: the thread takes the step it is at.
SpecFrame ==
    /\ InitFrame /\ [][NextFrame]_vars
    /\ WF_vars(FrameOnce) /\ WF_vars(FrameRepeatStep) /\ WF_vars(FrameRepeatReturn)

\* C10: in Repeat mode, for every duration parse can read (0 included) and
\* every non-negative frame, getAnimFrame's loop ends and it returns.
C10_RepeatTerminates ==
    (pc = "entered" /\ cmab.loopMode = REPEAT) ~> (pc = "returned")

(* ------------------------- parseTrack on a buffer --------------------- *)
Versions == {Ocarina, Majora}
HalfWords == 0..MaxHalf
\* 32-bit words of the keyframe table: 0, 1, and the bits of the single 1.0
DataWords == {0, 1, 1065353216}

\* a track buffer of the bounded set: header halves h, table words w
TrackBuffer(h, w) == [half |-> h, words |-> w]

NoSampler ==
    /\ cmab = [duration |-> 0, loopMode |-> REPEAT]
    /\ time = 0 /\ loopFrame = 0
    /\ NoEvaluator

InitTrack ==
    /\ version \in Versions
    /\ \E h \in [1..4 -> HalfWords], w \in SeqsUpTo(DataWords, MaxWords) :
          buffer = TrackBuffer(h, w)
    /\ animEntries = <<>>
    /\ parsed = <<>>
    /\ pc = "start"
    /\ NoSampler
    /\ NoCache

ParseTrack ==
    /\ pc = "start"
    /\ parsed' = parseTrack(version, buffer)
    /\ pc' = "done"
    /\ UNCHANGED <<cacheVars, cmab, time, loopFrame, evaluatorVars, version, buffer, animEntries>>

NextTrack == ParseTrack

SpecTrack == InitTrack /\ [][NextTrack]_vars

\* the header declares a type that is neither Linear nor Hermite
UnknownType == TrackType(version, buffer) \notin {LINEAR, HERMITE}

\* C4 as claimed: a track whose header declares a type other than Linear and
\* Hermite fails with the unsupported-type error under both versions and for
\* every declared keyframe count.
C4_UnknownTypeAlwaysThrows ==
    (pc = "done" /\ UnknownType) => parsed.kind = "whoops"

\* C4 amended: such a track fails with the unsupported-type error under both
\* versions for every declared keyframe count of at least 1; with a count of
\* 0 the parser returns "no track" before it looks at the type.
C4_UnknownTypeThrows ==
    (pc = "done" /\ UnknownType) =>
      /\ NumKeyframes(version, buffer) >= 1 => parsed.kind = "whoops"
      /\ NumKeyframes(version, buffer) = 0 => parsed = Return(Undefined)

\* type 3 with keyframes to read, rejected under the Majora layout
C4_Witness ==
    /\ pc = "done" /\ version = Majora
    /\ TrackType(version, buffer) = 3
    /\ NumKeyframes(version, buffer) >= 1
    /\ 2 * NumKeyframes(version, buffer) <= Len(buffer.words)
    /\ parsed.kind = "whoops"

\* parseTrack has returned a Hermite track
HermiteParsed ==
    /\ pc = "done" /\ parsed.kind = "return"
    /\ parsed.v # Undefined
    /\ parsed.v.type = HERMITE

\* the number an unsigned integer n is, in the form getFloat32 gives a float
UintNumber(n) == Dyadic(n, 0)

\* C11: under both versions every Hermite keyframe's tangentIn (the word at
\* +0x08) and tangentOut (the word at +0x0C) are the numbers those words
\* encode as 32-bit floats, decoded as the value at +0x04 is.
C11_TangentsAreFloats ==
    HermiteParsed =>
      \A i \in 1..Len(parsed.v.frames) :
        /\ parsed.v.frames[i].value = getFloat32(buffer.words[4 * i - 2])
        /\ UintNumber(parsed.v.frames[i].tangentIn)
              = getFloat32(buffer.words[4 * i - 1])
        /\ UintNumber(parsed.v.frames[i].tangentOut)
              = getFloat32(buffer.words[4 * i])

(* --------------------------- parse on a buffer ------------------------ *)
\* track buffers: one Linear keyframe under the Ocarina layout (a count of
\* 0 under Majora's), one under Majora's (a count of 0 under Ocarina's), an
\* unknown type under both, and two Linear keyframes cut short under the
\* Ocarina layout
OneKeyOcarina == [half |-> <<1, 0, 1, 0>>, words |-> <<0, 1065353216>>]
OneKeyMajora == [half |-> <<1, 1, 0, 0>>, words |-> <<0, 1065353216>>]
BadTypeTrack == [half |-> <<3, 1, 1, 0>>, words |-> <<0, 1065353216>>]
CutShortTrack == [half |-> <<1, 0, 2, 0>>, words |-> <<0, 1065353216>>]

EntryBuffers ==
    {[magic |-> mg, animationType |-> 0, materialIndex |-> 0, channelIndex |-> 0,
      trackOffs |-> <<0, 0, 0, 0>>, at |-> <<>>] : mg \in {"mmad", "mmaD"}}
    \cup
    {[magic |-> mg, animationType |-> ROTATION, materialIndex |-> 0, channelIndex |-> 1,
      trackOffs |-> <<24, 0, 0, 0>>, at |-> (24 :> tb)] :
        mg \in {"mmad", "mmaD"},
        tb \in {OneKeyOcarina, OneKeyMajora, BadTypeTrack, CutShortTrack}}

\* header fields: the value parse asserts, and another
GoodHeader ==
    [magic |-> "cmab", subversion |-> 1, f0C |-> 0, f10 |-> 1, f14 |-> 32,
     strt |-> "strt", f20 |-> U32Max, f2C |-> 20, mads |-> "mads"]
BadHeader ==
    [magic |-> "cmaB", subversion |-> 2, f0C |-> 1, f10 |-> 2, f14 |-> 0,
     strt |-> "strT", f20 |-> <<65535, 0>>, f2C |-> 0, mads |-> "madS"]
HeaderFields == DOMAIN GoodHeader

\* headers with at most MaxBadFields fields that are not as asserted
Headers ==
    {[f \in HeaderFields |-> IF f \in bad THEN BadHeader[f] ELSE GoodHeader[f]] :
        bad \in {b \in SUBSET HeaderFields : Cardinality(b) <= MaxBadFields}}

\* a container buffer of the bounded set: header h, duration d, entries es
ContainerBuffer(h, d, es) ==
    [magic |-> h.magic, subversion |-> h.subversion, f0C |-> h.f0C,
     f10 |-> h.f10, f14 |-> h.f14, strt |-> h.strt, f20 |-> h.f20,
     duration |-> d, f2C |-> h.f2C, mads |-> h.mads, entries |-> es]

\* the entry tables of at most MaxEntries entries
EntryTables == SeqsUpTo(EntryBuffers, MaxEntries)

InitParse ==
    /\ version \in Versions
    /\ \E h \in Headers, d \in Durations, es \in EntryTables :
          buffer = ContainerBuffer(h, d, es)
    /\ animEntries = <<>>
    /\ parsed = <<>>
    /\ pc = "start"
    /\ NoSampler
    /\ NoCache

\* parse, from its first line to the loop over the entry table
ParseHeader ==
    /\ pc = "start"
    /\ IF HeaderOk(buffer) = "ok"
       THEN pc' = "entries" /\ UNCHANGED parsed
       ELSE pc' = "done" /\ parsed' = Throw(HeaderOk(buffer))
    /\ UNCHANGED <<cacheVars, cmab, time, loopFrame, evaluatorVars, version, buffer, animEntries>>

\* one iteration of the loop: animEntries.push(parseMmad(...))
ParseEntry ==
    /\ pc = "entries"
    /\ Len(animEntries) < Len(buffer.entries)
    /\ LET e == parseMmad(version, buffer.entries[Len(animEntries) + 1])
       IN  IF e.kind = "return"
           THEN animEntries' = Append(animEntries, e.v) /\ UNCHANGED <<pc, parsed>>
           ELSE pc' = "done" /\ parsed' = e /\ UNCHANGED animEntries
    /\ UNCHANGED <<cacheVars, cmab, time, loopFrame, evaluatorVars, version, buffer>>

\* return { duration, loopMode, animEntries };
ParseReturn ==
    /\ pc = "entries"
    /\ Len(animEntries) = Len(buffer.entries)
    /\ parsed' = Return([duration |-> buffer.duration, loopMode |-> REPEAT,
                         animEntries |-> animEntries])
    /\ pc' = "done"
    /\ UNCHANGED <<cacheVars, cmab, time, loopFrame, evaluatorVars, version, buffer, animEntries>>

NextParse == ParseHeader \/ ParseEntry \/ ParseReturn

SpecParse == InitParse /\ [][NextParse]_vars

\* a validated field of the buffer is not what parse asserts
HeaderMismatch == \E f \in HeaderFields : buffer[f] # GoodHeader[f]
EntryMismatch(i) == buffer.entries[i].magic # "mmad"
AnyMismatch ==
    HeaderMismatch \/ \E i \in 1..Len(buffer.entries) : EntryMismatch(i)

\* the errors spec.md names MalformedData: a failed assertion, a read past
\* the end of the buffer
MalformedData == {"AssertionFailed", "RangeError"}

\* C3 as claimed: when any validated field mismatches, parse fails with the
\* malformed-data error and returns no container.
C3_MismatchIsMalformedData ==
    (pc = "done" /\ AnyMismatch) => parsed.kind \in MalformedData

\* C3 amended: when any validated field mismatches, parse returns no
\* container, not even the entries decoded so far.  It fails with the
\* malformed-data error unless an entry before the first mismatching one
\* holds a track of unsupported type; then it fails at that entry with the
\* unsupported-type error.
C3_AllOrNothing ==
    (pc = "done" /\ AnyMismatch) =>
      /\ parsed.kind # "return"
      /\ HeaderMismatch => parsed.kind = "AssertionFailed" /\ animEntries = <<>>
      /\ ~HeaderMismatch =>
           LET first == CHOOSE i \in 1..Len(buffer.entries) :
                           /\ EntryMismatch(i)
                           /\ \A j \in 1..(i - 1) : ~EntryMismatch(j)
               failing == {j \in 1..first :
                             parseMmad(version, buffer.entries[j]).kind # "return"}
               stop == CHOOSE j \in failing : \A k \in failing : j <= k
           IN  /\ Len(animEntries) = stop - 1
               /\ stop = first => parsed.kind = "AssertionFailed"
               /\ parsed.kind \notin MalformedData =>
                     /\ stop < first
                     /\ parsed.kind = "whoops"
                     /\ parseMmad(version, buffer.entries[stop]).kind = "whoops"

\* the last entry's signature is wrong after an entry has been decoded
C3_Witness ==
    /\ pc = "done" /\ ~HeaderMismatch
    /\ Len(buffer.entries) >= 2
    /\ Len(animEntries) = Len(buffer.entries) - 1
    /\ EntryMismatch(Len(buffer.entries))
    /\ parsed.kind = "AssertionFailed"

(* ------------------- parseMmad on a buffer, then sampled -------------- *)
\* track buffers with a keyframe count of 0 under both layouts: Linear,
\* an unknown type, Hermite with words after the header
ZeroCountLinear == [half |-> <<1, 0, 0, 0>>, words |-> <<>>]
ZeroCountUnknown == [half |-> <<3, 0, 0, 0>>, words |-> <<>>]
ZeroCountHermite == [half |-> <<2, 0, 0, 0>>, words |-> <<0, 1065353216>>]
\* under the Ocarina layout: two Linear keyframes (1, 0.0), (2, 1.0), and
\* one Hermite keyframe (0, 1.0) with tangents 0
LateKeysOcarina == [half |-> <<1, 0, 2, 0>>, words |-> <<1, 0, 2, 1065353216>>]
OneKeyHermite == [half |-> <<2, 0, 1, 0>>, words |-> <<0, 1065353216, 0, 0>>]

MmadTracks ==
    {ZeroCountLinear, ZeroCountUnknown, ZeroCountHermite, OneKeyOcarina,
     OneKeyMajora, LateKeysOcarina, OneKeyHermite, BadTypeTrack}

\* an entry buffer: semantic ty, the four 16-bit offsets offs from 0x10 on,
\* track buffer a at offset 24 and b at offset 40
EntryBuffer(ty, offs, a, b) ==
    [magic |-> "mmad", animationType |-> ty, materialIndex |-> 0,
     channelIndex |-> 0, trackOffs |-> offs, at |-> (24 :> a) @@ (40 :> b)]

\* the JavaScript number a float read by getFloat32 is, for the floats
\* that are integers
FloatValue(d) == d.m * (2 ^ d.e)

\* a parsed track with its keyframe values as the sampler's numbers
SampleableTrack(track) ==
    IF track = Undefined THEN Undefined
    ELSE [type |-> track.type,
          frames |-> [i \in 1..Len(track.frames) |->
                        [track.frames[i] EXCEPT !.value = FloatValue(@)]]]

SampleableEntry(entry) ==
    [animationType |-> entry.animationType,
     tracks |-> [i \in 1..Len(entry.tracks) |-> SampleableTrack(entry.tracks[i])]]

InitMmad ==
    /\ version \in Versions
    /\ \E ty \in {0, TRANSLATION, 2, UNK_04, ROTATION},
          offs \in [1..4 -> {0, 24, 40}],
          a \in MmadTracks, b \in {ZeroCountUnknown, OneKeyOcarina} :
          buffer = EntryBuffer(ty, offs, a, b)
    \* the container parse returns: loopMode is always REPEAT
    /\ cmab = [duration |-> MaxDuration, loopMode |-> REPEAT]
    /\ animEntries = <<>>
    /\ parsed = <<>>
    /\ pc = "start"
    /\ time = 0 /\ loopFrame = 0
    /\ NoEvaluator
    /\ NoCache

\* animEntries.push(parseMmad(version, buffer.slice(...))): the entry the
\* evaluators are then given
ParseMmad ==
    /\ pc = "start"
    /\ parsed' = parseMmad(version, buffer)
    /\ animEntry' = IF parsed'.kind = "return"
                    THEN SampleableEntry(parsed'.v) ELSE animEntry
    /\ pc' = "done"
    /\ UNCHANGED <<cacheVars, cmab, time, loopFrame, animator, status, mtx, color,
                   version, buffer, animEntries>>

\* parseMmad has returned an entry
EntryParsed == pc = "done" /\ parsed.kind = "return"

NextMmad ==
    \/ ParseMmad
    \/ (EntryParsed /\ NewTextureAnimator)
    \/ (EntryParsed /\ NewColorAnimator)
    \/ (EntryParsed /\ CalcTexMtx)
    \/ (EntryParsed /\ CalcMaterialColor)

SpecMmad == InitMmad /\ [][NextMmad]_vars

\* the slot count the claim gives a semantic
SlotsOfSemantic(ty) ==
    IF ty = TRANSLATION THEN 2
    ELSE IF ty = UNK_04 THEN 4
    ELSE IF ty = ROTATION THEN 1
    ELSE 0

\* slot i (0-based) of the entry buffer: its offset, and what the track
\* buffer there parses to
SlotOffs(i) == buffer.trackOffs[i + 1]
SlotTrack(i) == parseTrack(version, buffer.at[SlotOffs(i)]).v
Slots == 0..(SlotsOfSemantic(buffer.animationType) - 1)

ZeroCountSlot(i) ==
    /\ SlotOffs(i) # 0
    /\ NumKeyframes(version, buffer.at[SlotOffs(i)]) = 0

\* the entry buffer with offset 0 in each such slot
ZeroedBuffer ==
    [buffer EXCEPT !.trackOffs =
        [j \in 1..4 |-> IF ZeroCountSlot(j - 1) THEN 0 ELSE buffer.trackOffs[j]]]

\* C13: a header declaring 0 keyframes parses to "no track" without an
\* error, whatever its type and however short its buffer, and a slot whose
\* non-zero offset leads to one is, from then on, like a slot with offset
\* 0: the entry fails or returns as it would with offset 0 there, the slot
\* reads absent, every call of an evaluator ends as it would on that entry,
\* and a call that returns has used the default for the slot's component
\* (0 for translation and rotation, 1 for a colour channel), at every frame.
C13_ZeroCountIsAbsent ==
    /\ pc = "done" =>
         /\ parsed.kind = parseMmad(version, ZeroedBuffer).kind
         /\ EntryParsed =>
              \A i \in Slots : ZeroCountSlot(i) => TrackAt(parsed.v, i) = Undefined
    /\ (EntryParsed /\ Sampled) =>
         LET absent == SampleableEntry(parseMmad(version, ZeroedBuffer).v)
         IN  /\ animator = "TextureAnimator" =>
                  calcTexMtx(cmab, absent, time, mtx) = [status |-> status, dst |-> mtx]
             /\ animator = "ColorAnimator" =>
                  calcMaterialColor(cmab, absent, time, color)
                     = [status |-> status, dst |-> color]
             /\ (status = "ok" /\ animator = "TextureAnimator"
                    /\ buffer.animationType = TRANSLATION) =>
                  /\ ZeroCountSlot(0) => mtx.m12 = Num(0)
                  /\ ZeroCountSlot(1) => mtx.m13 = Num(0)
             /\ (status = "ok" /\ animator = "TextureAnimator"
                    /\ buffer.animationType = ROTATION) =>
                  /\ ZeroCountSlot(0) => mtx = Identity
             /\ (status = "ok" /\ animator = "ColorAnimator") =>
                  /\ ZeroCountSlot(0) => color.r = Num(1)
                  /\ ZeroCountSlot(1) => color.g = Num(1)
                  /\ ZeroCountSlot(2) => color.b = Num(1)
                  /\ ZeroCountSlot(3) => color.a = Num(1)

\* a translation whose slot 0 leads to a header of unknown type and 0
\* keyframes, beside a slot 1 that holds the constant 1, sampled after
\* frame 0
C13_Witness ==
    /\ EntryParsed
    /\ buffer.animationType = TRANSLATION
    /\ ZeroCountSlot(0)
    /\ buffer.at[SlotOffs(0)] = ZeroCountUnknown
    /\ SlotOffs(1) # 0
    /\ SlotTrack(1) # Undefined
    /\ animator = "TextureAnimator" /\ status = "ok"
    /\ time > 0
    /\ mtx = Mat(Num(0), RNeg(Num(1)), Num(0))

(* --------------------- ModelCache (Scenes_Fez.ts) --------------------- *)
\* A request is <<directory, path, extension>>: fetchXML and fetchPNG
\* issue theirs before they first suspend, so an internal fetch has issued
\* all its requests when it returns its promise.
\* The promise of an async function that is suspended at its await
PendingPromise(method, path, requests) ==
    [method |-> method, path |-> path, requests |-> requests, state |-> "pending"]

fetchTrilesetInternal(path) ==
    PendingPromise("fetchTrilesetInternal", path,
                   {<<"trile sets", path, "xml">>, <<"trile sets", path, "png">>})

fetchArtObjectInternal(path) ==
    PendingPromise("fetchArtObjectInternal", path,
                   {<<"art objects", path, "xml">>, <<"art objects", path, "png">>})

fetchBackgroundPlaneInternal(path, isAnimated) ==
    PendingPromise("fetchBackgroundPlaneInternal", path,
                   IF isAnimated
                   THEN {<<"background planes", path, "ani.png">>,
                         <<"background planes", path, "xml">>}
                   ELSE {<<"background planes", path, "png">>})

\* Map.has(path)
has(map, path) == map[path] # 0

\* What a public fetch does to its map and to the promises there are, and
\* the promise it returns: [cache, promises, promise].  made is the promise
\* the internal fetch would return.
CachedFetch(map, proms, path, made) ==
    LET started == IF ~has(map, path) THEN Append(proms, made) ELSE proms
        set == IF ~has(map, path) THEN [map EXCEPT ![path] = Len(started)] ELSE map
    IN  [cache |-> set, promises |-> started, promise |-> set[path]]

fetchTrileset(map, proms, path) ==
    CachedFetch(map, proms, path, fetchTrilesetInternal(path))

fetchArtObject(map, proms, path) ==
    CachedFetch(map, proms, path, fetchArtObjectInternal(path))

\* fetchBackgroundPlane without the has() test: every call fetches and sets
fetchBackgroundPlaneNoHas(map, proms, path, isAnimated) ==
    LET started == Append(proms, fetchBackgroundPlaneInternal(path, isAnimated))
    IN  [cache |-> [map EXCEPT ![path] = Len(started)],
         promises |-> started,
         promise |-> Len(started)]

fetchBackgroundPlane(map, proms, path, isAnimated) ==
    CachedFetch(map, proms, path, fetchBackgroundPlaneInternal(path, isAnimated))

InitCache ==
    /\ NoCache
    /\ pc = "idle"
    /\ NoSampler
    /\ NoParser

\* a call of a public fetch, recorded with the promise it returned
Called(method, path, isAnimated, promise) ==
    [method |-> method, path |-> path, isAnimated |-> isAnimated,
     promise |-> promise]

FetchTrileset ==
    /\ Len(calls) < MaxCalls
    /\ \E path \in Paths :
        LET r == fetchTrileset(trilesetPromiseCache, promises, path)
        IN  /\ trilesetPromiseCache' = r.cache
            /\ promises' = r.promises
            /\ calls' = Append(calls, Called("fetchTrileset", path, FALSE, r.promise))
    /\ UNCHANGED <<artObjectPromiseCache, backgroundPlanePromiseCache,
                   cmab, time, evaluatorVars, frameVars, parserVars>>

FetchArtObject ==
    /\ Len(calls) < MaxCalls
    /\ \E path \in Paths :
        LET r == fetchArtObject(artObjectPromiseCache, promises, path)
        IN  /\ artObjectPromiseCache' = r.cache
            /\ promises' = r.promises
            /\ calls' = Append(calls, Called("fetchArtObject", path, FALSE, r.promise))
    /\ UNCHANGED <<trilesetPromiseCache, backgroundPlanePromiseCache,
                   cmab, time, evaluatorVars, frameVars, parserVars>>

FetchBackgroundPlane ==
    /\ Len(calls) < MaxCalls
    /\ \E path \in Paths, isAnimated \in BOOLEAN :
        LET r == fetchBackgroundPlane(backgroundPlanePromiseCache, promises,
                                      path, isAnimated)
        IN  /\ backgroundPlanePromiseCache' = r.cache
            /\ promises' = r.promises
            /\ calls' = Append(calls,
                          Called("fetchBackgroundPlane", path, isAnimated, r.promise))
    /\ UNCHANGED <<trilesetPromiseCache, artObjectPromiseCache,
                   cmab, time, evaluatorVars, frameVars, parserVars>>

\* the requests of an internal fetch have all arrived: it resumes after its
\* await and returns, which fulfils its promise
Settle ==
    /\ \E i \in DOMAIN promises :
        /\ promises[i].state = "pending"
        /\ promises' = [promises EXCEPT ![i].state = "fulfilled"]
    /\ UNCHANGED <<trilesetPromiseCache, artObjectPromiseCache,
                   backgroundPlanePromiseCache, calls,
                   cmab, time, evaluatorVars, frameVars, parserVars>>

NextCache == FetchTrileset \/ FetchArtObject \/ FetchBackgroundPlane \/ Settle

SpecCache == InitCache /\ [][NextCache]_vars

\* the internal fetches started by a method for a path
InternalFetches(method, path) ==
    {i \in DOMAIN promises :
        promises[i].method = method /\ promises[i].path = path}

\* the calls of a public method for a path, and the first of them
CallsOf(method, path) ==
    {i \in DOMAIN calls : calls[i].method = method /\ calls[i].path = path}
FirstCall(method, path) ==
    CHOOSE i \in CallsOf(method, path) : \A j \in CallsOf(method, path) : i <= j

\* the internal method behind each public one
InternalOf(method) ==
    IF method = "fetchTrileset" THEN "fetchTrilesetInternal"
    ELSE IF method = "fetchArtObject" THEN "fetchArtObjectInternal"
    ELSE "fetchBackgroundPlaneInternal"

\* C14: for each of the three maps and each path, whatever the order of the
\* calls and whether or not an earlier fetch of the path is still pending,
\* the internal fetch has been started once if the path was asked for and
\* never otherwise, every call for the path has returned the promise the
\* first call returned, and a background plane's requests are those of the
\* first call's isAnimated.
C14_OneFetchPerPath ==
    \A method \in {"fetchTrileset", "fetchArtObject", "fetchBackgroundPlane"},
       path \in Paths :
        /\ Cardinality(InternalFetches(InternalOf(method), path))
              = IF CallsOf(method, path) = {} THEN 0 ELSE 1
        /\ \A i \in CallsOf(method, path) :
              /\ calls[i].promise = calls[FirstCall(method, path)].promise
              /\ calls[i].promise \in InternalFetches(InternalOf(method), path)
              /\ method = "fetchBackgroundPlane" =>
                    promises[calls[i].promise].requests =
                       fetchBackgroundPlaneInternal(
                          path, calls[FirstCall(method, path)].isAnimated).requests

\* a background plane asked for as animated and then, while that fetch is
\* pending, as not animated: the second call is given the animated fetch
C14_Witness ==
    /\ Len(calls) >= 2
    /\ calls[1] = Called("fetchBackgroundPlane", 1, TRUE, 1)
    /\ calls[2] = Called("fetchBackgroundPlane", 1, FALSE, 1)
    /\ Len(promises) = 1
    /\ promises[1].state = "pending"
    /\ <<"background planes", 1, "ani.png">> \in promises[1].requests

====
